---- MODULE Spec2Model ----
(***************************************************************************)
(* Live exercise session orchestrator (src/src/pages/LiveSession.tsx).     *)
(*                                                                         *)
(* The component is a React function component.  Its state is the useState *)
(* cells and the refs; every event handler, timer callback and promise     *)
(* continuation is one atomic action (JavaScript runs them to completion). *)
(* A function created during a render closes over the state of THAT        *)
(* render: a callback that outlives the render (the sampling interval, a   *)
(* pending startCamera) keeps reading the values it captured, which the    *)
(* model carries along as a "snapshot" record.  Refs are read live.        *)
(*                                                                         *)
(* Time is counted in milliseconds since the last activity update, in      *)
(* steps of the watchdog period; sampling ticks and the 500 ms restart     *)
(* delay are untimed (they may happen at any moment they are armed).       *)
(***************************************************************************)
EXTENDS Integers, Sequences, FiniteSets, TLC

\* ---------------------------------------------------------------- bounds
ExerciseSets == 2          \* exercise.sets of the session under test
ExerciseTargetReps == 2    \* exercise.target_reps of the session under test
MaxInFlight == 2           \* analysis calls pending at the same time
MaxPendingStarts == 1      \* getUserMedia prompts pending at the same time
MaxRestarts == 1           \* side-change restarts scheduled at the same time
MaxStarts == 3             \* startCamera invocations in one run
MaxCalls == 4              \* analyze_frame calls issued in one run
MaxSideChanges == 1        \* side-toggle clicks in one run
MaxElapsed == 7000         \* timeSinceLastActivity saturates here
MaxStartsUnmount == 2      \* startCamera invocations in a run with unmount
MaxCallsUnmount == 4       \* analyze_frame calls in a run with unmount
MaxPendingSaves == 1       \* save_session requests pending at the same time
MaxLandmarks == 16         \* longest landmark array handed to drawLandmarks
MaxStartsFair == 2         \* startCamera invocations in a run to completion
MaxCallsFair == 5          \* analyze_frame calls in a run to completion

\* ------------------------------------------------------ program constants
PAUSE_TIMEOUT_MS == 5000
WATCHDOG_PERIOD_MS == 1000

Sides == {"auto", "left", "right"}
AccuracyValues == {90}      \* accuracy_score values the service reports
MaxServerReps == ExerciseTargetReps   \* the service counts no further
NoInterval == [live |-> FALSE]
NoSave == [sent |-> FALSE]

\* useRef initial value and the literal used by every reset
ZeroState == [reps |-> 0, stage |-> "down", angle |-> 0, last_rep_time |-> 0,
              analysis_side |-> "none"]

\* stage and angle the analysis service reports
ServerPose == [stage |-> "up", angle |-> 90]
\* the side the service resolves a null analysis_side to, or none; the code
\* never tells left from right, so resolving to "left" stands for both
ServerResolves == {"none", "left"}

VARIABLES
    mounted,              \* the component is mounted
    user,                 \* useAuth(): an authenticated user id is present
    isActive, reps, feedback, accuracy, error,
    drawingData,          \* drawingData is not null (the session keeps no more
                          \* of it); the data itself where drawLandmarks is run
    analysisSide, setsCompleted, showCompletionModal,
    timeSinceLastActivity,\* now - lastActivityTime (ms, saturating)
    watchdogDue,          \* a tick of pauseCheckInterval is due
    sessionStateRef,      \* sessionStateRef.current
    intervalRef,          \* intervalRef.current: the registered sampling interval
    leakedIntervals,      \* live sampling intervals no ref points to
    srcObject,            \* videoRef.current.srcObject holds a live stream
    leakedStream,         \* a live camera stream is attached to nothing
    pendingCamera,        \* startCamera calls awaiting getUserMedia
    restarts,             \* setTimeout(startCamera, 500) not yet fired
    inFlight,             \* analyze_frame calls awaiting their response
    pendingSaves,         \* save_session requests awaiting their response
    repsPersisted,        \* the displayed reps were requested during a set whose
                          \* completion has already been sent to save_session
    userSide,             \* the side the user selected last (handleSideChange)
    switched,             \* the side was changed while the session was active
    startsLeft, callsLeft, sideChangesLeft,
                          \* how often, in the rest of the run, startCamera is
                          \* invoked, an analysis call issued, a side clicked
    lastOp                \* the operation that produced this state

vars == <<mounted, user, isActive, reps, feedback, accuracy, error, drawingData,
          analysisSide, setsCompleted, showCompletionModal,
          timeSinceLastActivity, watchdogDue, sessionStateRef, intervalRef,
          leakedIntervals, srcObject, leakedStream, pendingCamera, restarts,
          inFlight, pendingSaves, repsPersisted, userSide, switched,
          startsLeft, callsLeft, sideChangesLeft, lastOp>>

\* ---------------------------------------------------------------- helpers
RemoveAt(s, i) == SubSeq(s, 1, i - 1) \o SubSeq(s, i + 1, Len(s))

\* the values a render's closures capture
Snapshot == [side |-> analysisSide, modal |-> showCompletionModal]

\* the <video>/<canvas> elements exist (the modal render returns early)
VideoEl == mounted /\ ~showCompletionModal

\* the banner without the set-count test and rendered over the modal
BannerShownAnySet == mounted /\ reps >= ExerciseTargetReps

\* the "Start Next Set" banner is rendered
BannerShown ==
    /\ mounted /\ ~showCompletionModal
    /\ reps >= ExerciseTargetReps /\ setsCompleted < ExerciseSets

\* state setters of an unmounted component are no-ops
Set(new, old) == IF mounted THEN new ELSE old

\* lastOp: the operation that ran last and what it did to the outside world:
\*   save       body of the save_session request it issued (NoSave: none)
\*   onComplete number of times it invoked the onComplete collaborator
\*   stop       it ran stopSession
\*   request    analysis_side of the analyze_frame request it issued ("": none)
\* and, for the response of an analysis call, the history of that call:
\*   stale      the response of a later-issued call was applied before it
\*   stopped    stopSession ran between its request and its response
\*   persisted  a set completion was saved between its request and its response
\*   preSwitch  the side was changed while active between request and response
\* ("saveSettled" is the settling of a save_session request)
Op(n) == [name |-> n, save |-> NoSave, onComplete |-> 0, stop |-> FALSE,
          request |-> "", stale |-> FALSE, stopped |-> FALSE, persisted |-> FALSE,
          preSwitch |-> FALSE]

AddMs(t, d) == IF t + d > MaxElapsed THEN MaxElapsed ELSE t + d

\* the state after construction; data is the initial value of drawingData
InitState(maxStarts, maxCalls, maxSideChanges, data) ==
    /\ startsLeft = maxStarts
    /\ callsLeft = maxCalls
    /\ sideChangesLeft = maxSideChanges
    /\ mounted = TRUE
    /\ user \in BOOLEAN
    /\ isActive = FALSE
    /\ reps = 0
    /\ feedback = 0
    /\ accuracy = 0
    /\ error = ""
    /\ drawingData = data
    /\ analysisSide = "auto"
    /\ setsCompleted = 0
    /\ showCompletionModal = FALSE
    /\ timeSinceLastActivity = 0
    /\ watchdogDue = FALSE
    /\ sessionStateRef = ZeroState
    /\ intervalRef = NoInterval
    /\ leakedIntervals = {}
    /\ srcObject = FALSE
    /\ leakedStream = FALSE
    /\ pendingCamera = <<>>
    /\ restarts = <<>>
    /\ inFlight = <<>>
    /\ pendingSaves = 0
    /\ repsPersisted = FALSE
    /\ userSide = "auto"
    /\ switched = FALSE
    /\ lastOp = Op("init")

InitWith(maxStarts, maxCalls, maxSideChanges) ==
    InitState(maxStarts, maxCalls, maxSideChanges, FALSE)

Init == InitWith(MaxStarts, MaxCalls, MaxSideChanges)

\* ------------------------------------------------------- saveSessionResult
\* line 197: the body of the request
SaveBody(finalReps, finalAccuracy) ==
    [sent |-> TRUE, reps_completed |-> finalReps, accuracy_score |-> finalAccuracy]

\* saveSessionResult without the test of line 192
saveSessionResultAnyReps(finalReps, finalAccuracy) ==
    IF ~user THEN NoSave
    ELSE SaveBody(finalReps, finalAccuracy)

\* lines 190-198: the save_session request issued, NoSave when the function
\* returns early (no user id, or zero reps)
saveSessionResult(finalReps, finalAccuracy) ==
    IF ~user THEN NoSave
    ELSE IF finalReps = 0 THEN NoSave
    ELSE SaveBody(finalReps, finalAccuracy)

\* line 194: the request of the operation (if it issued one) is now awaited;
\* nobody awaits saveSessionResult itself
fetchSaveSession(op) ==
    /\ op.save.sent => pendingSaves < MaxPendingSaves
    /\ pendingSaves' = IF op.save.sent THEN pendingSaves + 1 ELSE pendingSaves

\* lines 199-203: the request settles; a non-OK status and a thrown network
\* error are written to the console
SaveOutcomes == {"ok", "status", "throw"}

\* a handler that reports a failed save to the user
SaveSettlesShowsError(outcome) ==
    /\ outcome \in SaveOutcomes
    /\ pendingSaves > 0
    /\ pendingSaves' = pendingSaves - 1
    /\ lastOp' = Op("saveSettled")
    /\ error' = IF outcome = "ok" THEN error ELSE Set("save", error)
    /\ UNCHANGED <<mounted, user, isActive, reps, feedback, accuracy,
                   drawingData, analysisSide, setsCompleted,
                   showCompletionModal, timeSinceLastActivity, watchdogDue,
                   sessionStateRef, intervalRef, leakedIntervals, srcObject,
                   leakedStream, pendingCamera, restarts, inFlight,
                   repsPersisted, userSide, switched, startsLeft, callsLeft,
                   sideChangesLeft>>

SaveSettles(outcome) ==
    /\ outcome \in SaveOutcomes
    /\ pendingSaves > 0
    /\ pendingSaves' = pendingSaves - 1
    /\ lastOp' = Op("saveSettled")
    /\ UNCHANGED <<mounted, user, isActive, reps, feedback, accuracy, error,
                   drawingData, analysisSide, setsCompleted,
                   showCompletionModal, timeSinceLastActivity, watchdogDue,
                   sessionStateRef, intervalRef, leakedIntervals, srcObject,
                   leakedStream, pendingCamera, restarts, inFlight,
                   repsPersisted, userSide, switched, startsLeft, callsLeft,
                   sideChangesLeft>>

\* ------------------------------------------------------------- stopSession
\* every pending analysis call now has a stopSession between request and response
MarkStopped(q) == [k \in DOMAIN q |-> [q[k] EXCEPT !.stopped = TRUE]]

\* stopSession that forgets clearInterval
stopSessionKeepsInterval ==
    /\ intervalRef' = intervalRef
    /\ srcObject' = IF VideoEl THEN FALSE ELSE srcObject
    /\ isActive' = Set(FALSE, isActive)
    /\ drawingData' = Set(FALSE, drawingData)
    /\ watchdogDue' = FALSE

\* line 242: only the interval intervalRef points to is cleared
\* lines 243-246: only the stream attached to the video element is stopped
\* line 249; the watchdog effect (deps: isActive) clears pauseCheckInterval
stopSessionTeardown ==
    /\ intervalRef' = NoInterval
    /\ srcObject' = IF VideoEl THEN FALSE ELSE srcObject
    /\ isActive' = Set(FALSE, isActive)
    /\ drawingData' = Set(FALSE, drawingData)
    /\ watchdogDue' = FALSE

\* a stopSession that saves whatever shouldSave says
stopSessionOpAlwaysSaves(n, shouldSave, shouldCompletePage) ==
    [Op(n) EXCEPT !.stop = TRUE,
                  !.save = saveSessionResult(sessionStateRef.reps, accuracy),
                  !.onComplete = IF shouldCompletePage THEN 1 ELSE 0]

\* a stopSession that never saves
stopSessionOpNoSave(n, shouldSave, shouldCompletePage) ==
    [Op(n) EXCEPT !.stop = TRUE,
                  !.onComplete = IF shouldCompletePage THEN 1 ELSE 0]

\* what stopSession(shouldSave, shouldCompletePage) does to the outside
\* world (lines 247, 250), recorded as the operation named n
stopSessionOp(n, shouldSave, shouldCompletePage) ==
    [Op(n) EXCEPT !.stop = TRUE,
                  !.save = IF shouldSave
                              THEN saveSessionResult(sessionStateRef.reps, accuracy)
                              ELSE NoSave,
                  !.onComplete = IF shouldCompletePage THEN 1 ELSE 0]

\* stopSession called from a click handler or from the watchdog, where
\* nothing else is assigned in the same step
stopSession(n, shouldSave, shouldCompletePage) ==
    /\ stopSessionTeardown
    /\ sessionStateRef' = IF shouldCompletePage THEN ZeroState ELSE sessionStateRef
    /\ inFlight' = MarkStopped(inFlight)
    /\ lastOp' = stopSessionOp(n, shouldSave, shouldCompletePage)

\* ------------------------------------------------------------- startCamera
\* line 257: the call suspends at getUserMedia with the closures of the
\* render it was created in
startCameraCall(snap) ==
    /\ Len(pendingCamera) < MaxPendingStarts
    /\ startsLeft > 0
    /\ startsLeft' = startsLeft - 1
    /\ pendingCamera' = Append(pendingCamera, snap)

\* overlay button "Start Camera", rendered while !isActive (lines 395-405)
ClickStartCamera ==
    /\ mounted /\ ~showCompletionModal /\ ~isActive
    /\ startCameraCall(Snapshot)
    /\ lastOp' = Op("clickStartCamera")
    /\ UNCHANGED <<mounted, user, isActive, reps, feedback, accuracy, error,
                   drawingData, analysisSide, setsCompleted,
                   showCompletionModal, timeSinceLastActivity, watchdogDue,
                   sessionStateRef, intervalRef, leakedIntervals, srcObject,
                   leakedStream, restarts, inFlight, repsPersisted, userSide,
                   switched, callsLeft, sideChangesLeft>>
    /\ UNCHANGED pendingSaves

\* a start that keeps the counters of the previous run
startCameraKeepsReps ==
    /\ sessionStateRef' = sessionStateRef
    /\ reps' = reps
    /\ feedback' = feedback

\* line 260: the reset of every successful start
startCameraReset ==
    /\ sessionStateRef' = ZeroState
    /\ reps' = Set(0, reps)
    /\ feedback' = Set(0, feedback)

\* lines 258-261: getUserMedia resolved with a stream
CameraGranted(i) ==
    /\ i \in DOMAIN pendingCamera
    /\ LET snap == pendingCamera[i] IN
       /\ pendingCamera' = RemoveAt(pendingCamera, i)
       /\ srcObject' = IF VideoEl THEN TRUE ELSE srcObject
       /\ leakedStream' = (leakedStream \/ (VideoEl /\ srcObject) \/ ~VideoEl)
       /\ isActive' = Set(TRUE, isActive)
       /\ error' = Set("", error)
       /\ timeSinceLastActivity' = Set(0, timeSinceLastActivity)
       /\ startCameraReset
       /\ intervalRef' = [live |-> TRUE, side |-> snap.side, modal |-> snap.modal]
       /\ leakedIntervals' = IF intervalRef.live
                                THEN leakedIntervals \cup {intervalRef}
                                ELSE leakedIntervals
       /\ watchdogDue' = FALSE
       /\ repsPersisted' = Set(FALSE, repsPersisted)
    /\ lastOp' = Op("cameraGranted")
    /\ UNCHANGED <<mounted, user, accuracy, drawingData, analysisSide,
                   setsCompleted, showCompletionModal, restarts, inFlight,
                   userSide, switched, startsLeft, callsLeft, sideChangesLeft>>
    /\ UNCHANGED pendingSaves

\* a catch block that swallows the rejection
catchCameraSilently == error' = error

\* line 262: the catch block
catchCameraError == error' = Set("camera", error)

\* lines 257, 262: getUserMedia rejected
CameraDenied(i) ==
    /\ i \in DOMAIN pendingCamera
    /\ pendingCamera' = RemoveAt(pendingCamera, i)
    /\ catchCameraError
    /\ lastOp' = Op("cameraDenied")
    /\ UNCHANGED <<mounted, user, isActive, reps, feedback, accuracy,
                   drawingData, analysisSide, setsCompleted,
                   showCompletionModal, timeSinceLastActivity, watchdogDue,
                   sessionStateRef, intervalRef, leakedIntervals, srcObject,
                   leakedStream, restarts, inFlight, repsPersisted, userSide,
                   switched, startsLeft, callsLeft, sideChangesLeft>>
    /\ UNCHANGED pendingSaves

\* setTimeout(startCamera, 500) of handleSideChange fires (line 298)
RestartTimeout(i) ==
    /\ i \in DOMAIN restarts
    /\ startCameraCall(restarts[i])
    /\ restarts' = RemoveAt(restarts, i)
    /\ lastOp' = Op("restartTimeout")
    /\ UNCHANGED <<mounted, user, isActive, reps, feedback, accuracy, error,
                   drawingData, analysisSide, setsCompleted,
                   showCompletionModal, timeSinceLastActivity, watchdogDue,
                   sessionStateRef, intervalRef, leakedIntervals, srcObject,
                   leakedStream, inFlight, repsPersisted, userSide, switched,
                   callsLeft, sideChangesLeft>>
    /\ UNCHANGED pendingSaves

\* ------------------------------------------------------- captureAndAnalyze
\* the intervals whose callback can still run
LiveIntervals == (IF intervalRef.live THEN {intervalRef} ELSE {}) \cup leakedIntervals

\* analysis_side of previous_state (line 216), from the captured analysisSide
SentSide(side) == IF side = "auto" THEN "null" ELSE side

\* lines 207-222: a 500 ms tick of interval iv issues one analyze_frame call;
\* showCompletionModal is the value iv's closure captured, the refs are live
captureAndAnalyze(iv) ==
    /\ iv \in LiveIntervals
    /\ VideoEl /\ ~iv.modal
    /\ Len(inFlight) < MaxInFlight
    /\ callsLeft > 0
    /\ callsLeft' = callsLeft - 1
    /\ inFlight' = Append(inFlight,
                          [side |-> iv.side,
                           prevReps |-> sessionStateRef.reps,
                           stale |-> FALSE, stopped |-> FALSE, persisted |-> FALSE,
                           preSwitch |-> FALSE])
    /\ lastOp' = [Op("captureAndAnalyze") EXCEPT !.request = SentSide(iv.side)]
    /\ UNCHANGED <<mounted, user, isActive, reps, feedback, accuracy, error,
                   drawingData, analysisSide, setsCompleted,
                   showCompletionModal, timeSinceLastActivity, watchdogDue,
                   sessionStateRef, intervalRef, leakedIntervals, srcObject,
                   leakedStream, pendingCamera, restarts, repsPersisted,
                   userSide, switched, startsLeft, sideChangesLeft>>
    /\ UNCHANGED pendingSaves

\* the analysis service: counts on from the reps it was sent, keeps a side it
\* was given and may resolve a null side
ServerReps(call) == {r \in {call.prevReps, call.prevReps + 1} : r <= MaxServerReps}
ServerSides(call) == IF SentSide(call.side) = "null" THEN ServerResolves
                     ELSE {call.side}

\* calls issued before call i become stale once response i is applied
MarkStale(q, i) == [k \in DOMAIN q |-> IF k < i THEN [q[k] EXCEPT !.stale = TRUE]
                                       ELSE q[k]]

\* lines 227-236: the response of call i arrived with status OK
AnalysisSuccess(i, r, acc, side) ==
    /\ i \in DOMAIN inFlight
    /\ LET call == inFlight[i]
           pose == ServerPose
           stop == r >= ExerciseTargetReps
           rest == RemoveAt(MarkStale(inFlight, i), i)
       IN
       /\ r \in ServerReps(call)
       /\ side \in ServerSides(call)
       /\ timeSinceLastActivity' = Set(0, timeSinceLastActivity)
       /\ sessionStateRef' = [reps |-> r, stage |-> pose.stage, angle |-> pose.angle,
                              last_rep_time |-> r, analysis_side |-> side]
       /\ analysisSide' = IF side # "none" /\ call.side = "auto"
                             THEN Set(side, analysisSide) ELSE analysisSide
       /\ reps' = Set(r, reps)
       /\ feedback' = Set(1, feedback)
       /\ accuracy' = Set(acc, accuracy)
       /\ repsPersisted' = Set(call.persisted, repsPersisted)
       /\ IF stop
             THEN /\ stopSessionTeardown
                  /\ inFlight' = MarkStopped(rest)
             ELSE /\ drawingData' = Set(TRUE, drawingData)
                  /\ watchdogDue' = FALSE
                  /\ inFlight' = rest
                  /\ UNCHANGED <<intervalRef, srcObject, isActive>>
       /\ lastOp' = [Op("analysisSuccess") EXCEPT !.stop = stop,
                        !.stale = call.stale, !.stopped = call.stopped,
                        !.persisted = call.persisted,
                        !.preSwitch = call.preSwitch]
    /\ UNCHANGED <<mounted, user, error, setsCompleted, showCompletionModal,
                   leakedIntervals, leakedStream, pendingCamera, restarts,
                   userSide, switched, startsLeft, callsLeft, sideChangesLeft>>
    /\ UNCHANGED pendingSaves

\* a catch block that keeps the overlay of the last good response
catchKeepsDrawing ==
    /\ error' = Set("analysis", error)
    /\ drawingData' = drawingData

\* line 237: the catch block
catchAnalysisError ==
    /\ error' = Set("analysis", error)
    /\ drawingData' = Set(FALSE, drawingData)

\* lines 223-226, 237: the call failed (network error or non-OK status)
AnalysisFailure(i) ==
    /\ i \in DOMAIN inFlight
    /\ inFlight' = RemoveAt(inFlight, i)
    /\ catchAnalysisError
    /\ lastOp' = [Op("analysisFailure") EXCEPT !.stale = inFlight[i].stale,
                     !.stopped = inFlight[i].stopped,
                     !.persisted = inFlight[i].persisted,
                     !.preSwitch = inFlight[i].preSwitch]
    /\ UNCHANGED <<mounted, user, isActive, reps, feedback, accuracy,
                   analysisSide, setsCompleted, showCompletionModal,
                   timeSinceLastActivity, watchdogDue, sessionStateRef,
                   intervalRef, leakedIntervals, srcObject, leakedStream,
                   pendingCamera, restarts, repsPersisted, userSide, switched,
                   startsLeft, callsLeft, sideChangesLeft>>
    /\ UNCHANGED pendingSaves

\* ------------------------------------------------------------ user actions
\* "Stop Session & Save", rendered while isActive (lines 435-442)
ClickStopAndSave ==
    /\ mounted /\ ~showCompletionModal /\ isActive
    /\ stopSession("clickStopAndSave", TRUE, TRUE)
    /\ UNCHANGED <<mounted, user, reps, feedback, accuracy, error,
                   analysisSide, setsCompleted, showCompletionModal,
                   timeSinceLastActivity, leakedIntervals, leakedStream,
                   pendingCamera, restarts, repsPersisted, userSide, switched,
                   startsLeft, callsLeft, sideChangesLeft>>
    /\ fetchSaveSession(lastOp')

\* "End Session" (lines 376-378)
ClickEndSession ==
    /\ mounted /\ ~showCompletionModal
    /\ stopSession("clickEndSession", FALSE, TRUE)
    /\ UNCHANGED <<mounted, user, reps, feedback, accuracy, error,
                   analysisSide, setsCompleted, showCompletionModal,
                   timeSinceLastActivity, leakedIntervals, leakedStream,
                   pendingCamera, restarts, repsPersisted, userSide, switched,
                   startsLeft, callsLeft, sideChangesLeft>>
    /\ UNCHANGED pendingSaves

\* a set completion was saved: the reps any pending call reports belong to it
MarkPersisted(q, saved) ==
    [k \in DOMAIN q |-> [q[k] EXCEPT !.persisted = @ \/ saved]]

\* "Start Next Set" of the banner (lines 500-508) runs handleSetCompletion
handleSetCompletion ==
    /\ BannerShown
    /\ LET nextSetsCompleted == setsCompleted + 1
           save == saveSessionResult(reps, accuracy)
       IN
       /\ lastOp' = [Op("handleSetCompletion") EXCEPT
                        !.save = save,
                        !.persisted = repsPersisted,
                        !.stop = (nextSetsCompleted >= ExerciseSets)]
       /\ repsPersisted' = (repsPersisted \/ save.sent)
       /\ IF nextSetsCompleted >= ExerciseSets
             THEN /\ stopSessionTeardown
                  /\ inFlight' = MarkStopped(MarkPersisted(inFlight, save.sent))
                  /\ setsCompleted' = nextSetsCompleted
                  /\ showCompletionModal' = TRUE
                  /\ UNCHANGED <<reps, feedback, sessionStateRef,
                                 pendingCamera, startsLeft>>
             ELSE /\ setsCompleted' = nextSetsCompleted
                  /\ reps' = 0
                  /\ feedback' = 0
                  /\ sessionStateRef' = ZeroState
                  /\ startCameraCall(Snapshot)
                  /\ watchdogDue' = FALSE
                  /\ inFlight' = MarkPersisted(inFlight, save.sent)
                  /\ UNCHANGED <<showCompletionModal, intervalRef, srcObject,
                                 isActive, drawingData>>
    /\ UNCHANGED <<mounted, user, accuracy, error, analysisSide,
                   timeSinceLastActivity, leakedIntervals, leakedStream,
                   restarts, userSide, switched, callsLeft, sideChangesLeft>>
    /\ fetchSaveSession(lastOp')

\* every pending analysis call was issued before this side switch
MarkPreSwitch(q) == [k \in DOMAIN q |-> [q[k] EXCEPT !.preSwitch = TRUE]]

\* side toggle buttons (lines 294-300, 307-324)
handleSideChange(side) ==
    /\ mounted /\ ~showCompletionModal
    /\ side \in Sides
    /\ sideChangesLeft > 0
    /\ sideChangesLeft' = sideChangesLeft - 1
    /\ analysisSide' = side
    /\ userSide' = side
    /\ IF isActive
          THEN /\ stopSessionTeardown
               /\ sessionStateRef' = sessionStateRef
               /\ inFlight' = MarkPreSwitch(MarkStopped(inFlight))
               /\ lastOp' = stopSessionOp("handleSideChange", FALSE, FALSE)
               /\ Len(restarts) < MaxRestarts
               /\ restarts' = Append(restarts, Snapshot)
               /\ switched' = TRUE
          ELSE /\ lastOp' = Op("handleSideChange")
               /\ UNCHANGED <<intervalRef, srcObject, isActive, drawingData,
                              watchdogDue, sessionStateRef, inFlight, restarts,
                              switched>>
    /\ UNCHANGED <<mounted, user, reps, feedback, accuracy, error,
                   setsCompleted, showCompletionModal, timeSinceLastActivity,
                   leakedIntervals, leakedStream, pendingCamera, repsPersisted,
                   startsLeft, callsLeft>>
    /\ UNCHANGED pendingSaves

\* "Return to Dashboard" of the completion modal (line 354)
ClickReturnToDashboard ==
    /\ mounted /\ showCompletionModal
    /\ lastOp.name # "clickReturnToDashboard"
    /\ lastOp' = [Op("clickReturnToDashboard") EXCEPT !.onComplete = 1]
    /\ UNCHANGED <<mounted, user, isActive, reps, feedback, accuracy, error,
                   drawingData, analysisSide, setsCompleted,
                   showCompletionModal, timeSinceLastActivity, watchdogDue,
                   sessionStateRef, intervalRef, leakedIntervals, srcObject,
                   leakedStream, pendingCamera, restarts, inFlight,
                   repsPersisted, userSide, switched, startsLeft, callsLeft,
                   sideChangesLeft>>
    /\ UNCHANGED pendingSaves

\* ---------------------------------------------------------- pause watchdog
\* the watchdog test without the time test
PauseDetectedAnyTime ==
    /\ reps > 0
    /\ setsCompleted < ExerciseSets

\* the watchdog test without reps > 0
PauseDetectedAnyReps ==
    /\ timeSinceLastActivity > PAUSE_TIMEOUT_MS
    /\ setsCompleted < ExerciseSets

\* the watchdog test without the set-count test
PauseDetectedAnySet ==
    /\ timeSinceLastActivity > PAUSE_TIMEOUT_MS
    /\ reps > 0

\* line 173
PauseDetected ==
    /\ timeSinceLastActivity > PAUSE_TIMEOUT_MS
    /\ reps > 0
    /\ setsCompleted < ExerciseSets

\* lines 170-177: a tick of pauseCheckInterval, which exists while isActive
WatchdogTick ==
    /\ mounted /\ isActive /\ watchdogDue
    /\ IF PauseDetected
          THEN stopSession("watchdogStop", TRUE, TRUE)
          ELSE /\ watchdogDue' = FALSE
               /\ lastOp' = Op("watchdogTick")
               /\ UNCHANGED <<intervalRef, srcObject, isActive, drawingData,
                              sessionStateRef, inFlight>>
    /\ UNCHANGED <<mounted, user, reps, feedback, accuracy, error,
                   analysisSide, setsCompleted, showCompletionModal,
                   timeSinceLastActivity, leakedIntervals, leakedStream,
                   pendingCamera, restarts, repsPersisted, userSide, switched,
                   startsLeft, callsLeft, sideChangesLeft>>
    /\ fetchSaveSession(lastOp')

\* one watchdog period of wall-clock time elapses while the watchdog runs (the
\* only reader of lastActivityTime); a tick that is due runs first
TimePasses ==
    /\ mounted /\ isActive
    /\ ~watchdogDue
    /\ timeSinceLastActivity' = AddMs(timeSinceLastActivity, WATCHDOG_PERIOD_MS)
    /\ watchdogDue' = TRUE
    /\ lastOp' = Op("timePasses")
    /\ UNCHANGED <<mounted, user, isActive, reps, feedback, accuracy, error,
                   drawingData, analysisSide, setsCompleted,
                   showCompletionModal, sessionStateRef, intervalRef,
                   leakedIntervals, srcObject, leakedStream, pendingCamera,
                   restarts, inFlight, repsPersisted, userSide, switched,
                   startsLeft, callsLeft, sideChangesLeft>>
    /\ UNCHANGED pendingSaves

\* ----------------------------------------------------------------- unmount
\* line 337: the cleanup runs stopSession(false, false); whether videoRef is
\* already detached when a passive-effect cleanup runs depends on the React
\* version, so both outcomes are possible
Unmount ==
    /\ mounted
    /\ mounted' = FALSE
    /\ \E detached \in BOOLEAN :
          /\ srcObject' = FALSE
          /\ leakedStream' = (leakedStream \/ (detached /\ srcObject))
    /\ intervalRef' = NoInterval
    /\ watchdogDue' = FALSE
    /\ inFlight' = MarkStopped(inFlight)
    /\ lastOp' = [Op("unmount") EXCEPT !.stop = TRUE]
    /\ UNCHANGED <<user, isActive, reps, feedback, accuracy, error,
                   drawingData, analysisSide, setsCompleted,
                   showCompletionModal, timeSinceLastActivity, sessionStateRef,
                   leakedIntervals, pendingCamera, restarts, repsPersisted,
                   userSide, switched, startsLeft, callsLeft, sideChangesLeft>>
    /\ UNCHANGED pendingSaves

\* ----------------------------------------------------------- drawLandmarks
\* lines 46-49
POSE_CONNECTIONS ==
    << <<11, 12>>, <<11, 13>>, <<13, 15>>, <<15, 17>>, <<15, 19>>, <<15, 21>>,
       <<17, 19>>, <<12, 14>>, <<14, 16>>, <<16, 18>>, <<16, 20>>, <<16, 22>>,
       <<11, 23>>, <<12, 24>>, <<23, 24>>, <<23, 25>>, <<24, 26>>, <<25, 27>>,
       <<26, 28>>, <<27, 29>>, <<28, 30>>, <<29, 31>>, <<30, 32>>, <<27, 31>>,
       <<28, 32>> >>

\* visibility is counted in hundredths: 60 is the 0.6 of lines 68 and 79
VISIBILITY_THRESHOLD == 60
VisibilityValues == {59, 60, 61}
FirstJoint == 11           \* the lowest landmark index POSE_CONNECTIONS uses

\* landmark arrays (indexed from 0): the landmarks below FirstJoint share one
\* visibility, every other landmark has its own; shorter arrays lack the
\* endpoints of some connections
LandmarkArrays ==
    UNION {{[i \in 0..(n - 1) |->
                [visibility |-> IF i < FirstJoint THEN base ELSE f[i]]] :
              base \in VisibilityValues,
              f \in [FirstJoint..(n - 1) -> VisibilityValues]} :
           n \in {0} \cup (FirstJoint..MaxLandmarks)}

\* angleData is optional (line 38)
AngleInputs == {[present |-> FALSE],
                [present |-> TRUE, angle |-> 0],
                [present |-> TRUE, angle |-> 45]}

DrawInputs == {[landmarks |-> lm, angleData |-> a] :
                  lm \in LandmarkArrays, a \in AngleInputs}

\* a visibility test that lets the threshold itself pass
VisibleAtThreshold(landmarks, i) ==
    /\ i \in DOMAIN landmarks
    /\ landmarks[i].visibility >= VISIBILITY_THRESHOLD

\* lines 68, 79: p?.visibility > 0.6, false for a landmark that is missing
Visible(landmarks, i) ==
    /\ i \in DOMAIN landmarks
    /\ landmarks[i].visibility > VISIBILITY_THRESHOLD

\* lines 58-120: the calls drawLandmarks makes on the canvas context
drawLandmarks(data) ==
    LET landmarks == data.landmarks
        angleData == data.angleData
        drawAngle == angleData.present /\ angleData.angle > 0
    IN [name |-> "drawLandmarks",
        cleared |-> TRUE,
        edges |-> SelectSeq(POSE_CONNECTIONS,
                            LAMBDA e : Visible(landmarks, e[1])
                                       /\ Visible(landmarks, e[2])),
        joints |-> {i \in DOMAIN landmarks : Visible(landmarks, i)},
        arc |-> drawAngle,
        label |-> IF drawAngle THEN angleData.angle ELSE -1]

\* drawLandmarks is run on the drawing data
DrawLandmarksStep ==
    /\ lastOp.name = "init"
    /\ drawingData \in DrawInputs
    /\ lastOp' = drawLandmarks(drawingData)
    /\ UNCHANGED <<mounted, user, isActive, reps, feedback, accuracy, error,
                   drawingData, analysisSide, setsCompleted,
                   showCompletionModal, timeSinceLastActivity, watchdogDue,
                   sessionStateRef, intervalRef, leakedIntervals, srcObject,
                   leakedStream, pendingCamera, restarts, inFlight,
                   pendingSaves, repsPersisted, userSide, switched,
                   startsLeft, callsLeft, sideChangesLeft>>

\* --------------------------------------------------------- specifications
\* the session: starts, sampling, responses, stops and set completion
SessionStep ==
    \/ ClickStartCamera
    \/ \E i \in 1..MaxPendingStarts : CameraGranted(i)
    \/ \E i \in 1..MaxPendingStarts : CameraDenied(i)
    \/ \E iv \in LiveIntervals : captureAndAnalyze(iv)
    \/ \E i \in 1..MaxInFlight, r \in 0..MaxServerReps, acc \in AccuracyValues,
          side \in ServerResolves \cup Sides : AnalysisSuccess(i, r, acc, side)
    \/ \E i \in 1..MaxInFlight : AnalysisFailure(i)
    \/ ClickStopAndSave
    \/ ClickEndSession
    \/ handleSetCompletion
    \/ ClickReturnToDashboard
    \/ \E outcome \in SaveOutcomes : SaveSettles(outcome)

SideStep ==
    \/ \E side \in Sides : handleSideChange(side)
    \/ \E i \in 1..MaxRestarts : RestartTimeout(i)

TimeStep ==
    \/ WatchdogTick
    \/ TimePasses

Next == SessionStep

Spec == Init /\ [][Next]_vars

NextSides == SessionStep \/ SideStep
SpecSides == Init /\ [][NextSides]_vars

NextTimed == SessionStep \/ TimeStep
SpecTimed == Init /\ [][NextTimed]_vars

\* the life of the component up to and after its unmount
InitUnmount == InitWith(MaxStartsUnmount, MaxCallsUnmount, MaxSideChanges)
NextUnmount == SessionStep \/ SideStep \/ Unmount
SpecUnmount == InitUnmount /\ [][NextUnmount]_vars

\* drawLandmarks as a function of its input
InitDraw == \E data \in DrawInputs : InitState(0, 0, 0, data)
NextDraw == DrawLandmarksStep
SpecDraw == InitDraw /\ [][NextDraw]_vars

\* the session of a user who starts the camera once and from then on only
\* clicks "Start Next Set", with a camera that is always granted and an
\* analysis service that answers every call with status OK
StartSession == lastOp.name = "init" /\ ClickStartCamera

InitFair == InitWith(MaxStartsFair, MaxCallsFair, 0)
NextFair ==
    \/ StartSession
    \/ \E i \in 1..MaxPendingStarts : CameraGranted(i)
    \/ \E iv \in LiveIntervals : captureAndAnalyze(iv)
    \/ \E i \in 1..MaxInFlight, r \in 0..MaxServerReps, acc \in AccuracyValues,
          side \in ServerResolves \cup Sides : AnalysisSuccess(i, r, acc, side)
    \/ handleSetCompletion
    \/ \E outcome \in SaveOutcomes : SaveSettles(outcome)
    \/ TimeStep

\* the click that starts the session happens, getUserMedia resolves, the
\* 500 ms interval keeps ticking while it is live, every fetch settles, and
\* the user clicks "Start Next Set" while the banner is offered
FairSteps ==
    /\ WF_vars(StartSession)
    /\ WF_vars(\E i \in 1..MaxPendingStarts : CameraGranted(i))
    /\ WF_vars(\E iv \in LiveIntervals : captureAndAnalyze(iv))
    /\ WF_vars(\E i \in 1..MaxInFlight, r \in 0..MaxServerReps,
                  acc \in AccuracyValues, side \in ServerResolves \cup Sides :
                   AnalysisSuccess(i, r, acc, side))
    /\ WF_vars(handleSetCompletion)
    /\ WF_vars(\E outcome \in SaveOutcomes : SaveSettles(outcome))

SpecFair == InitFair /\ [][NextFair]_vars /\ FairSteps

NextAll == SessionStep \/ SideStep \/ TimeStep \/ Unmount
SpecAll == Init /\ [][NextAll]_vars

\* ------------------------------------------------------------------ states
\* the session states of the design, read off the component's flags
Completed == showCompletionModal
AwaitingNextSet == BannerShown /\ ~isActive
Active == isActive /\ ~Completed /\ ~BannerShown

\* ------------------------------------------------------------------ claims

\* C1: a response to an earlier-issued call that arrives after the response
\* of a later-issued call was applied is discarded: it changes neither
\* SessionState nor the displayed reps.
C1_StaleResponseDiscarded ==
    [][(lastOp'.name = "analysisSuccess" /\ lastOp'.stale)
          => (sessionStateRef' = sessionStateRef /\ reps' = reps)]_vars

\* C2: a response to a call issued before stopSession ran, arriving after it,
\* is ignored: SessionState, reps, feedback, accuracy, analysis side, drawing
\* data and last-activity time keep their values and no further stop runs.
C2_ResponseAfterStopIgnored ==
    [][(lastOp'.name = "analysisSuccess" /\ lastOp'.stopped)
          => /\ UNCHANGED <<sessionStateRef, reps, feedback, accuracy,
                            analysisSide, drawingData, timeSinceLastActivity>>
             /\ ~lastOp'.stop]_vars

\* C3: once the user has changed the side while the session was active, every
\* analysis request carries the side selected last (null for auto).
C3_RequestCarriesSelectedSide ==
    (lastOp.name = "captureAndAnalyze" /\ switched)
        => lastOp.request = SentSide(userSide)

\* C4: in every reachable state 0 <= setsCompleted <= exercise.sets.
C4_SetsCompletedInRange ==
    setsCompleted >= 0 /\ setsCompleted <= ExerciseSets

C4_Witness ==
    lastOp.name = "handleSetCompletion" /\ setsCompleted = ExerciseSets

\* C5: a response that reaches target_reps on the final set moves the session
\* to Completed and invokes onComplete exactly once.
C5_FinalSetCompletes ==
    (/\ lastOp.name = "analysisSuccess" /\ ~lastOp.stale /\ ~lastOp.stopped
     /\ reps >= ExerciseTargetReps
     /\ setsCompleted = ExerciseSets - 1)
        => (Completed /\ lastOp.onComplete = 1)

C7_RepsMonotoneWithinSet ==
    [][reps' < reps
          => (reps' = 0 /\ lastOp'.name \in {"cameraGranted", "handleSetCompletion"})]_vars

\* C8: the reps of a completed set are sent to save_session at most once by
\* handleSetCompletion, also when the completion trigger repeats.
C8_CompletedSetSavedOnce ==
    (lastOp.name = "handleSetCompletion" /\ lastOp.save.sent) => ~lastOp.persisted

\* C9: (a) the watchdog stops the session only when it is active with
\* reps > 0, sets remaining and more than 5000 ms without activity, and then
\* saves the current reps and tears the session down; (b) such a pause is
\* detected within one watchdog period; (c) after the stop no watchdog timer
\* runs, so a pause is answered once.
C9_WatchdogAutoSave ==
    /\ [][lastOp'.name = "watchdogStop"
            => /\ isActive /\ reps > 0 /\ setsCompleted < ExerciseSets
               /\ timeSinceLastActivity > PAUSE_TIMEOUT_MS
               /\ lastOp.name # "watchdogStop"
               /\ lastOp'.save = (IF user THEN SaveBody(reps, accuracy) ELSE NoSave)
               /\ lastOp'.onComplete = 1
               /\ ~isActive' /\ ~intervalRef'.live /\ ~srcObject' /\ ~watchdogDue'
               /\ sessionStateRef' = ZeroState]_vars
    /\ []((isActive /\ reps > 0 /\ setsCompleted < ExerciseSets)
            => timeSinceLastActivity <= PAUSE_TIMEOUT_MS + WATCHDOG_PERIOD_MS)
    /\ [](watchdogDue => isActive)

C9_Witness ==
    /\ lastOp.name = "watchdogStop" /\ lastOp.save.sent
    /\ reps > 0 /\ timeSinceLastActivity > PAUSE_TIMEOUT_MS

\* C10: the watchdog does not stop the session while it awaits the next set
\* or is completed.
C10_NoWatchdogStopOutsideActive ==
    [][(Completed \/ BannerShown) => lastOp'.name # "watchdogStop"]_vars

C10_Witness ==
    /\ Completed /\ isActive /\ reps > 0
    /\ timeSinceLastActivity > PAUSE_TIMEOUT_MS
    /\ lastOp.name = "watchdogTick"

\* C11: every successful start leaves reps = 0, feedback empty and
\* SessionState equal to the zero state when the session becomes active.
C11_StartResets ==
    (lastOp.name = "cameraGranted" /\ mounted)
        => /\ isActive
           /\ reps = 0 /\ feedback = 0
           /\ sessionStateRef = ZeroState

C11_Witness ==
    /\ lastOp.name = "cameraGranted" /\ isActive
    /\ switched /\ setsCompleted > 0 /\ accuracy > 0

\* C12: whenever the session is not active neither the 500 ms sampling timer
\* nor the 1 s watchdog timer is running.
C12_NoTimerWhenInactive ==
    (mounted /\ ~isActive) => (LiveIntervals = {} /\ ~watchdogDue)

\* C13: after a side change while the session was active, no analysis request
\* carries as previous_state a state returned for a request issued before the
\* switch; stated of the request that directly follows the response which
\* wrote sessionStateRef.current, once the user selected a side and the
\* scheduled restart has run.
C13_FreshStateAfterSideChange ==
    [][~(/\ lastOp.name = "analysisSuccess" /\ lastOp.preSwitch
         /\ userSide # "auto" /\ restarts = <<>>
         /\ isActive /\ intervalRef.live
         /\ lastOp'.name = "captureAndAnalyze"
         /\ inFlight'[Len(inFlight')].prevReps = sessionStateRef.reps)]_vars

\* C14: a failed analysis call while the session is active leaves it active
\* with its sampling interval running and able to issue the next request, sets
\* the error message, clears the drawing data and leaves SessionState, reps
\* and setsCompleted unchanged.
C14_FailedAnalysisRecoverable ==
    [][(lastOp'.name = "analysisFailure" /\ mounted /\ Active /\ intervalRef.live)
          => /\ Active' /\ intervalRef' = intervalRef
             /\ VideoEl' /\ ~intervalRef'.modal
             /\ error' = "analysis" /\ ~drawingData'
             /\ UNCHANGED <<sessionStateRef, reps, setsCompleted>>]_vars

C14_Witness ==
    /\ lastOp.name = "analysisFailure" /\ ~lastOp.stopped
    /\ Active /\ intervalRef.live /\ reps > 0
    /\ error = "analysis" /\ ~drawingData

\* C15: when camera acquisition is denied or fails, the camera-permission
\* error is shown and nothing else changes: isActive stays false, no sampling
\* interval, stream or watchdog tick is started, SessionState and reps are
\* those before the failure.
C15_CameraDeniedStaysIdle ==
    [][(lastOp'.name = "cameraDenied" /\ mounted)
          => /\ error' = "camera"
             /\ (~isActive => ~isActive')
             /\ UNCHANGED <<isActive, intervalRef, leakedIntervals, srcObject,
                            leakedStream, watchdogDue, sessionStateRef, reps>>]_vars

C15_Witness ==
    /\ lastOp.name = "cameraDenied" /\ error = "camera"
    /\ ~isActive /\ ~intervalRef.live /\ ~srcObject
    /\ setsCompleted > 0

\* C16: whoever calls saveSessionResult (manual stop, watchdog auto-save, set
\* completion), no save_session request is issued when the reps passed are 0
\* or no user id is present; otherwise one request is issued that carries the
\* reps and the accuracy passed.
C16_SaveGuards ==
    [][/\ lastOp'.name \in {"clickStopAndSave", "watchdogStop"}
          => lastOp'.save = (IF user /\ sessionStateRef.reps # 0
                               THEN SaveBody(sessionStateRef.reps, accuracy)
                               ELSE NoSave)
       /\ lastOp'.name = "handleSetCompletion"
          => lastOp'.save = (IF user /\ reps # 0 THEN SaveBody(reps, accuracy)
                                                 ELSE NoSave)
       /\ lastOp'.name \notin {"clickStopAndSave", "watchdogStop",
                                "handleSetCompletion"}
          => lastOp'.save = NoSave]_vars

C16_Witness ==
    /\ lastOp.name = "clickStopAndSave" /\ user /\ ~lastOp.save.sent

\* C17: a step that takes the session from AwaitingNextSet to Active is the
\* "start next set" action; no other operation makes that transition.
C17_NextSetOnlyByUserAction ==
    [][(AwaitingNextSet /\ Active') => lastOp'.name = "handleSetCompletion"]_vars

\* C18: once the completion modal is shown it stays shown, the session is not
\* made active again (isActive, which stopSession cleared on entry, stays
\* false), setsCompleted keeps its value and no analysis request is issued.
C18_CompletedIsTerminal ==
    [][Completed
          => /\ Completed'
             /\ (~isActive => ~isActive')
             /\ setsCompleted' = setsCompleted
             /\ lastOp'.name # "captureAndAnalyze"]_vars

\* C19: in auto mode (the user selected no side), once a response has
\* resolved the side, every analysis request carries the resolved side.
C19_ResolvedSideAdopted ==
    (/\ lastOp.name = "captureAndAnalyze"
     /\ userSide = "auto" /\ ~switched
     /\ analysisSide # "auto")
        => lastOp.request = analysisSide

\* C20: after the component has unmounted no sampling interval and no
\* watchdog tick is armed, no analysis request is issued and no camera stream
\* is obtained and left live, whatever was pending at unmount.  (Whether the
\* stream attached at the moment of unmount is stopped depends on the React
\* version; the formula is stated of what happens after the unmount.)
C20_UnmountStopsEverything ==
    ~mounted => /\ LiveIntervals = {}
                /\ ~watchdogDue
                /\ lastOp.name # "captureAndAnalyze"
                /\ ~srcObject
                /\ (lastOp.name = "cameraGranted" => ~leakedStream)

\* C21: a stop that saves tears the session down and invokes onComplete in
\* the step that issues the save request, without waiting for its outcome;
\* when the request settles, with success, an error status or a thrown error,
\* nothing of the session changes: no error is shown and no request is sent
\* again.
C21_SaveNeverBlocksTeardown ==
    /\ [][lastOp'.name \in {"clickStopAndSave", "watchdogStop"}
            => /\ ~isActive' /\ ~intervalRef'.live /\ ~srcObject'
               /\ ~watchdogDue'
               /\ lastOp'.onComplete = 1
               /\ pendingSaves' = pendingSaves + (IF lastOp'.save.sent THEN 1 ELSE 0)]_vars
    /\ [][lastOp'.name = "saveSettled"
            => /\ lastOp'.save = NoSave /\ lastOp'.onComplete = 0
               /\ pendingSaves' = pendingSaves - 1
               /\ UNCHANGED <<isActive, reps, feedback, accuracy, error,
                              drawingData, analysisSide, setsCompleted,
                              showCompletionModal, sessionStateRef,
                              intervalRef, srcObject, watchdogDue, inFlight,
                              pendingCamera, restarts>>]_vars

C21_Witness ==
    /\ lastOp.name = "watchdogStop" /\ lastOp.save.sent
    /\ pendingSaves > 0
    /\ ~isActive /\ ~intervalRef.live /\ ~srcObject

\* C22: drawLandmarks draws no skeleton edge and no joint marker when no
\* landmark has a visibility above 0.6; every edge it draws joins two
\* existing landmarks whose visibility is above 0.6; it draws neither the arc
\* nor the angle label when the angle is 0 or the angle data is absent.
C22_DrawLandmarks ==
    lastOp.name = "drawLandmarks"
        => LET landmarks == drawingData.landmarks
               angleData == drawingData.angleData
           IN /\ (\A i \in DOMAIN landmarks :
                     landmarks[i].visibility <= VISIBILITY_THRESHOLD)
                  => (lastOp.edges = <<>> /\ lastOp.joints = {})
              /\ \A k \in DOMAIN lastOp.edges :
                    \A i \in {lastOp.edges[k][1], lastOp.edges[k][2]} :
                       /\ i \in DOMAIN landmarks
                       /\ landmarks[i].visibility > VISIBILITY_THRESHOLD
              /\ (~angleData.present \/ angleData.angle = 0)
                  => (~lastOp.arc /\ lastOp.label = -1)

C22_Witness ==
    /\ lastOp.name = "drawLandmarks"
    /\ DOMAIN drawingData.landmarks = 0..(MaxLandmarks - 1)
    /\ \A i \in DOMAIN drawingData.landmarks :
          drawingData.landmarks[i].visibility = VISIBILITY_THRESHOLD
    /\ drawingData.angleData.present /\ drawingData.angleData.angle = 0
    /\ lastOp.edges = <<>> /\ lastOp.joints = {} /\ ~lastOp.arc

\* C23: a stop by the watchdog and a press of "Stop Session & Save" are the
\* same function of the state they happen in: the save request saveSessionResult
\* issues for (SessionState reps, accuracy), the interval and the stream torn
\* down, SessionState zeroed, the session inactive, onComplete invoked once,
\* everything else kept.
C23_WatchdogStopIsStopAndSave ==
    [][lastOp'.name \in {"watchdogStop", "clickStopAndSave"}
          => /\ lastOp' = [Op(lastOp'.name) EXCEPT
                              !.stop = TRUE,
                              !.save = saveSessionResult(sessionStateRef.reps,
                                                         accuracy),
                              !.onComplete = 1]
             /\ ~isActive' /\ intervalRef' = NoInterval /\ ~srcObject'
             /\ ~drawingData' /\ ~watchdogDue'
             /\ sessionStateRef' = ZeroState
             /\ inFlight' = MarkStopped(inFlight)
             /\ UNCHANGED <<reps, feedback, accuracy, error, analysisSide,
                            setsCompleted, showCompletionModal,
                            timeSinceLastActivity, leakedIntervals,
                            leakedStream, pendingCamera, restarts,
                            repsPersisted>>]_vars

C23_Witness ==
    /\ lastOp.name = "clickStopAndSave" /\ lastOp.save.sent
    /\ reps > 0 /\ setsCompleted < ExerciseSets
    /\ timeSinceLastActivity > PAUSE_TIMEOUT_MS

\* C24: when a response brings reps to target_reps while sets remain, the
\* session awaits the next set with the camera stream still attached to the
\* video element and live.
C24_CameraKeptAtTarget ==
    (/\ lastOp.name = "analysisSuccess" /\ ~lastOp.stale /\ ~lastOp.stopped
     /\ reps >= ExerciseTargetReps
     /\ setsCompleted < ExerciseSets)
        => (AwaitingNextSet /\ srcObject)

\* C25: every successful analysis response and every successful start resets
\* the time since the last activity, and the watchdog stops the session only
\* when more than 5000 ms have passed since: a tick at 5000 ms or less leaves
\* the session running whatever the reps.
C25_ActivityResetsWatchdog ==
    /\ [][(lastOp'.name \in {"analysisSuccess", "cameraGranted"} /\ mounted)
            => timeSinceLastActivity' = 0]_vars
    /\ [][lastOp'.name = "watchdogStop"
            => timeSinceLastActivity > PAUSE_TIMEOUT_MS]_vars
    /\ [][(lastOp'.name = "watchdogTick"
             /\ timeSinceLastActivity <= PAUSE_TIMEOUT_MS)
            => UNCHANGED <<isActive, intervalRef, srcObject, sessionStateRef>>
               /\ lastOp'.save = NoSave /\ lastOp'.onComplete = 0]_vars

C25_Witness ==
    /\ lastOp.name = "watchdogTick" /\ isActive /\ intervalRef.live
    /\ reps > 0 /\ setsCompleted < ExerciseSets
    /\ timeSinceLastActivity = PAUSE_TIMEOUT_MS

\* C26: at most one sampling interval and at most one camera stream are live
\* at any time, and none is after an operation that ran stopSession.
C26_SingleIntervalAndStream ==
    mounted
        => /\ Cardinality(leakedIntervals) + (IF intervalRef.live THEN 1 ELSE 0) <= 1
           /\ ~(srcObject /\ leakedStream)
           /\ lastOp.stop
                 => (LiveIntervals = {} /\ ~srcObject /\ ~leakedStream)

\* C27: once the user has selected left or right, the analysis side is that
\* selection: no analysis response replaces it.
C27_ExplicitSideKept ==
    (mounted /\ userSide \in {"left", "right"}) => analysisSide = userSide

\* C28: "End Session", the stop at target_reps inside captureAndAnalyze, a
\* side change and the unmount cleanup issue no save_session request.
C28_NonPersistingStops ==
    [][lastOp'.name \in {"clickEndSession", "analysisSuccess",
                          "handleSideChange", "unmount"}
          => (lastOp'.save = NoSave /\ pendingSaves' = pendingSaves)]_vars

C28_Witness ==
    /\ lastOp.name = "unmount" /\ lastOp.stop /\ ~lastOp.save.sent
    /\ user /\ isActive /\ reps > 0 /\ sessionStateRef.reps > 0

\* an overlay that is painted whenever there is drawing data
CanvasPaintedAnyTime == VideoEl /\ drawingData

\* lines 329-335: the drawing effect runs after every render in which
\* drawingData or isActive changed; it paints the overlay canvas when both are
\* set and clears it otherwise. The canvas exists while the video panel does.
CanvasPainted == VideoEl /\ drawingData /\ isActive

\* C29: whenever the session is not Active the overlay canvas is blank, also
\* when drawing data was set by a response that arrived after a stop.
C29_BlankWhenNotActive == ~Active => ~CanvasPainted

C29_Witness ==
    /\ VideoEl /\ ~isActive /\ drawingData
    /\ lastOp.name = "analysisSuccess" /\ lastOp.stopped /\ ~lastOp.stop

\* C30: with a camera that is always granted, an analysis service that
\* answers every call with status OK and counts up to target_reps in each
\* set, and a user who only clicks "Start Next Set" when it is offered, the
\* session eventually reaches Completed with setsCompleted = exercise.sets.
\* Runs in which the watchdog saw no response for PAUSE_TIMEOUT_MS and
\* stopped the session, and runs that issued MaxCallsFair calls, are left out.
C30_EventuallyCompleted ==
    <>(\/ Completed /\ setsCompleted = ExerciseSets
       \/ lastOp.name = "watchdogStop"
       \/ callsLeft = 0)

====
